---- MODULE Spec2Model ----
(***************************************************************************)
(* Model of src/handler.ts: the Lambda handler that turns a Snyk issue URL *)
(* into a reachability verdict.  One invocation is a small state machine   *)
(* whose steps are the synchronous stretches of code between two awaits:   *)
(*   Invoke        lines 167-232  parse, validate, decompose, ask for org  *)
(*   OrgResolve    lines 232-246, 131-135  org answer, first page request  *)
(*   PageResolve   lines 135-161, 248-276  scan one page, go on or answer  *)
(*   FetchReject   lines 279-302  a rejected request, the catch block      *)
(* Strings whose characters the code inspects (the URL, the severity, the  *)
(* issue keys) are sequences of one-character strings.                     *)
(***************************************************************************)
EXTENDS Integers, Sequences, FiniteSets, TLC

VARIABLES
    authToken,   \* process.env.authToken, a JavaScript value
    upstream,    \* what the Snyk API answers: the org envelope and the pages
    inv          \* the invocations: event, locals, requests issued, response

vars == <<authToken, upstream, inv>>

-----------------------------------------------------------------------------
(* Bounds of the model. *)

MaxPages == 3     \* longest chain of issue pages
MaxRecords == 2   \* most records in the whole collection
MaxCoords == 2    \* most coordinates of one record
MaxOrgs == 2      \* most organizations in the org answer
MaxFetches == 6   \* most requests of one invocation that are answered

-----------------------------------------------------------------------------
(* JavaScript values: a record tagged by its type. *)

Undef == [t |-> "undef"]
Null == [t |-> "null"]
Num(n) == [t |-> "num", v |-> n]
Str(s) == [t |-> "str", v |-> s]
Arr(s) == [t |-> "arr", v |-> s]

\* ToBoolean: what `!x` and `if (x)` see.
Truthy(x) ==
    CASE x.t = "undef" -> FALSE
      [] x.t = "null" -> FALSE
      [] x.t = "num" -> x.v # 0
      [] x.t = "str" -> x.v # <<>>
      [] OTHER -> TRUE

\* x.name on a value of any type: throws on null and undefined, is undefined
\* on a primitive or an array, is the member (or undefined) on an object.
CanRead(x) == x.t \notin {"undef", "null"}
GetProp(x, name) ==
    IF x.t = "obj" /\ name \in DOMAIN x.f THEN x.f[name] ELSE Undef

-----------------------------------------------------------------------------
(* Characters and string helpers. *)

UpperCase ==
    <<"A", "B", "C", "D", "E", "F", "G", "H", "I", "J", "K", "L", "M",
      "N", "O", "P", "Q", "R", "S", "T", "U", "V", "W", "X", "Y", "Z">>
LowerCase ==
    <<"a", "b", "c", "d", "e", "f", "g", "h", "i", "j", "k", "l", "m",
      "n", "o", "p", "q", "r", "s", "t", "u", "v", "w", "x", "y", "z">>

\* A severity used as it was sent.
toLowerCaseSkipped(s) == s

\* String.prototype.toLowerCase, character by character.
toLowerCase(s) ==
    [k \in 1..Len(s) |->
        IF \E n \in 1..Len(UpperCase) : UpperCase[n] = s[k]
        THEN LowerCase[CHOOSE n \in 1..Len(UpperCase) : UpperCase[n] = s[k]]
        ELSE s[k]]

\* lit occurs in s at position p.
HasAt(s, p, lit) ==
    /\ p >= 1
    /\ p + Len(lit) - 1 <= Len(s)
    /\ SubSeq(s, p, p + Len(lit) - 1) = lit

\* Last position of the longest run of characters that starts at q and holds
\* none of the positions in stops (q - 1 when the run is empty): a greedy
\* class+ whose class ends at those positions.
RunEnd(s, q, stops) ==
    LET after == {k \in stops : k >= q}
    IN  IF after = {} THEN Len(s)
        ELSE (CHOOSE k \in after : \A j \in after : k <= j) - 1

\* The leftmost position of a set of match positions (a regex search tries
\* the start positions from left to right).
Leftmost(ps) == CHOOSE p \in ps : \A q \in ps : p <= q

NoMatch == [matched |-> FALSE, cap |-> <<>>]
Match(cap) == [matched |-> TRUE, cap |-> cap]

-----------------------------------------------------------------------------
(* The literals of the handler. *)

validSeverities ==
    { <<"c", "r", "i", "t", "i", "c", "a", "l">>, <<"h", "i", "g", "h">>,
      <<"m", "e", "d", "i", "u", "m">>, <<"l", "o", "w">> }

SegOrg == <<"/", "o", "r", "g", "/">>
SegProject == <<"/", "p", "r", "o", "j", "e", "c", "t", "/">>
MarkIssue == <<"#", "i", "s", "s", "u", "e", "-">>

\* The character classes of the three patterns, by the positions of a text
\* that are outside the class.
LineTerminators == {"\n", "\r"}
HexHyphen == {"a", "b", "c", "d", "e", "f", "0", "1", "2", "3", "4", "5",
              "6", "7", "8", "9", "-"}
EndsSlug(s) == {k \in 1..Len(s) : s[k] = "/"}                \* not in [^/]
EndsHex(s) == {k \in 1..Len(s) : s[k] \notin HexHyphen}      \* not in [a-f0-9-]
EndsDot(s) == {k \in 1..Len(s) : s[k] \in LineTerminators}   \* not matched by .

\* snykIssueUrl.match(/\/org\/([^/]+)\/project\//)
orgSlugMatch(url) ==
    LET hit(p) == LET e == RunEnd(url, p + Len(SegOrg), EndsSlug(url))
                  IN  /\ HasAt(url, p, SegOrg)
                      /\ e >= p + Len(SegOrg)
                      /\ HasAt(url, e + 1, SegProject)
        ps == {p \in 1..Len(url) : hit(p)}
    IN  IF ps = {} THEN NoMatch
        ELSE LET q == Leftmost(ps) + Len(SegOrg)
             IN  Match(SubSeq(url, q, RunEnd(url, q, EndsSlug(url))))

\* The project pattern without its (?:#|$) ending.
projectIdMatchUnanchored(url) ==
    LET hit(p) == /\ HasAt(url, p, SegProject)
                  /\ RunEnd(url, p + Len(SegProject), EndsHex(url)) >= p + Len(SegProject)
        ps == {p \in 1..Len(url) : hit(p)}
    IN  IF ps = {} THEN NoMatch
        ELSE LET q == Leftmost(ps) + Len(SegProject)
             IN  Match(SubSeq(url, q, RunEnd(url, q, EndsHex(url))))

\* snykIssueUrl.match(/\/project\/([a-f0-9-]+)(?:#|$)/)
projectIdMatch(url) ==
    LET hit(p) == LET e == RunEnd(url, p + Len(SegProject), EndsHex(url))
                  IN  /\ HasAt(url, p, SegProject)
                      /\ e >= p + Len(SegProject)
                      /\ (e = Len(url) \/ url[e + 1] = "#")
        ps == {p \in 1..Len(url) : hit(p)}
    IN  IF ps = {} THEN NoMatch
        ELSE LET q == Leftmost(ps) + Len(SegProject)
             IN  Match(SubSeq(url, q, RunEnd(url, q, EndsHex(url))))

\* snykIssueUrl.match(/#issue-(.+)/)
issueIdMatch(url) ==
    LET hit(p) == /\ HasAt(url, p, MarkIssue)
                  /\ RunEnd(url, p + Len(MarkIssue), EndsDot(url)) >= p + Len(MarkIssue)
        ps == {p \in 1..Len(url) : hit(p)}
    IN  IF ps = {} THEN NoMatch
        ELSE LET q == Leftmost(ps) + Len(MarkIssue)
             IN  Match(SubSeq(url, q, RunEnd(url, q, EndsDot(url))))

-----------------------------------------------------------------------------
(* Requests, responses and the upstream. *)

\* The three kinds of URL the handler requests.
orgsUrl(orgSlug) == [t |-> "url", api |-> "orgs", slug |-> orgSlug]
initialIssuesUrl(orgId, projectId, severity) ==
    [t |-> "url", api |-> "issues", org |-> orgId, project |-> projectId,
     severity |-> severity]
Cursor(j) == [t |-> "url", api |-> "cursor", page |-> j]

\* makeSnykApiRequest issues one GET with the token in its header.
makeSnykApiRequest(url, token) == [url |-> url, token |-> token]

\* What the API gateway gets back.
Response(status, msg) ==
    [statusCode |-> status, headers |-> "none", body |-> [message |-> msg]]
\* A verdict that reports the record's key where its id belongs.
VerdictWithKey(foundIssue, reachable) ==
    [statusCode |-> 200, headers |-> "application/json",
     body |-> [issueId |-> foundIssue.attributes.key, isReachable |-> reachable,
               fullIssueData |-> foundIssue]]

Verdict(foundIssue, reachable) ==
    [statusCode |-> 200, headers |-> "application/json",
     body |-> [issueId |-> foundIssue.id, isReachable |-> reachable,
               fullIssueData |-> foundIssue]]

\* The envelope the upstream answers a page request with.
PageAt(url) ==
    IF url.api = "issues" THEN upstream.pages[1] ELSE upstream.pages[url.page]

\* response.data.links?.next (response.data readable)
NextLink(d) ==
    LET links == GetProp(d, "links")
    IN  IF CanRead(links) THEN GetProp(links, "next") ELSE Undef

-----------------------------------------------------------------------------
(* The handler, from its entry to its first await (lines 167-232). *)

Obj(f) == [t |-> "obj", f |-> f]
EmptyObj == Obj(<<>>)

\* event.body is absent (null), or a text: malformed, or the JSON text of val.
BadJson == [t |-> "json", ok |-> FALSE, val |-> Undef]
Json(val) == [t |-> "json", ok |-> TRUE, val |-> val]

\* event.body ? JSON.parse(event.body) : {}   (thrown: a SyntaxError)
parseBody(body) ==
    IF Truthy(body)
    THEN IF body.ok THEN [thrown |-> FALSE, val |-> body.val]
         ELSE [thrown |-> TRUE, val |-> Undef]
    ELSE [thrown |-> FALSE, val |-> EmptyObj]

\* The locals of an invocation before the handler has run.
NewInvocation(body) ==
    [pc |-> "start", event |-> body,
     snykApiSeverityParam |-> Undef, orgSlug |-> Undef, projectId |-> Undef,
     issueId |-> Undef, orgId |-> Undef, currentUrl |-> Undef,
     requests |-> <<>>, replies |-> <<>>, response |-> <<>>]

\* A handler that answers only the first invocation to finish: the others
\* find a flag set that all invocations share.
ReturnFirstOnly(st, resp) ==
    [st EXCEPT !.pc = "done",
               !.response = IF \E j \in DOMAIN inv : inv[j].pc = "done"
                            THEN <<[resp EXCEPT !.statusCode = 500]>>
                            ELSE <<resp>>]

\* return { statusCode, body }
Return(st, resp) == [st EXCEPT !.pc = "done", !.response = <<resp>>]
\* an exception no try block encloses: the handler's promise rejects
Throw(st) == [st EXCEPT !.pc = "threw"]

\* The catch block (lines 279-302) for an error that is no axios error but
\* an Error (a TypeError raised inside the try block).
catchError(st, name) == Return(st, Response(500, <<"Error", name>>))

\* lines 208-232: the three matches and the organization request.
decompose(st, url, severity, token) ==
    IF url.t # "str" THEN catchError(st, "snykIssueUrl.match is not a function")
    ELSE
    LET o == orgSlugMatch(url.v)
        p == projectIdMatch(url.v)
        k == issueIdMatch(url.v)
    IN  IF ~o.matched \/ ~p.matched \/ ~k.matched
        THEN Return(st, Response(400, <<"Invalid Snyk issue URL format">>))
        ELSE [st EXCEPT
                !.pc = "awaitOrg",
                !.snykApiSeverityParam = Str(severity),
                !.orgSlug = Str(o.cap),
                !.projectId = Str(p.cap),
                !.issueId = Str(k.cap),
                !.requests = Append(@, makeSnykApiRequest(orgsUrl(Str(o.cap)), token))]

\* A check that validates the lower-cased severity and then uses the severity
\* as it was sent.
validateSeverityAsSent(st, url, incomingSeverity, token) ==
    IF incomingSeverity.t # "str" THEN Throw(st)
    ELSE
    LET snykApiSeverityParam == toLowerCase(incomingSeverity.v)
    IN  IF snykApiSeverityParam \notin validSeverities
        THEN Return(st, Response(400, <<"Invalid severity level", incomingSeverity>>))
        ELSE decompose(st, url, incomingSeverity.v, token)

\* lines 199-206: the severity check, then the try block.
validateSeverity(st, url, incomingSeverity, token) ==
    IF incomingSeverity.t # "str" THEN Throw(st)   \* .toLowerCase is not a function
    ELSE
    LET snykApiSeverityParam == toLowerCase(incomingSeverity.v)
    IN  IF snykApiSeverityParam \notin validSeverities
        THEN Return(st, Response(400, <<"Invalid severity level", incomingSeverity>>))
        ELSE decompose(st, url, snykApiSeverityParam, token)

\* A handler without the credential check.
tokenAlwaysConfigured(token) == TRUE

\* line 191: if (!authToken)
tokenConfigured(token) == Truthy(token)

\* lines 167-206: the checks that come before the try block.
handlerEntry(st, token) ==
    LET parsed == parseBody(st.event)
        requestBody == parsed.val
        snykIssueUrl == GetProp(requestBody, "snykIssueUrl")
        incomingSeverity == GetProp(requestBody, "severity")
    IN  IF parsed.thrown
        THEN Return(st, Response(400, <<"Invalid JSON in request body">>))
        ELSE IF ~CanRead(requestBody) THEN Throw(st)   \* requestBody.snykIssueUrl
        ELSE IF ~Truthy(snykIssueUrl) \/ ~Truthy(incomingSeverity)
        THEN Return(st, Response(400, <<"Missing snykIssueUrl or severity">>))
        ELSE IF ~tokenConfigured(token)
        THEN Return(st, Response(500, <<"Authentication token is not configured">>))
        ELSE validateSeverity(st, snykIssueUrl, incomingSeverity, token)

Invoke(i) ==
    /\ inv[i].pc = "start"
    /\ inv' = [inv EXCEPT ![i] = handlerEntry(inv[i], authToken)]
    /\ UNCHANGED <<authToken, upstream>>

-----------------------------------------------------------------------------
(* The issue search (lines 126-162) and the rest of the handler. *)

\* A scan that compares the first item of the page only.
findTargetFirstOnly(items, targetIssueKey) ==
    IF Len(items) > 0 /\ items[1].attributes.key = targetIssueKey THEN 1 ELSE 0

\* A scan whose target is a variable that all invocations share: it matches
\* the key any invocation has extracted.
findTargetOfAnyInvocation(items, targetIssueKey) ==
    LET hits == {k \in 1..Len(items) :
                    \E j \in DOMAIN inv : items[k].attributes.key = inv[j].issueId}
    IN  IF hits = {} THEN 0 ELSE Leftmost(hits)

\* A scan that keeps the last item whose key is the target.
findTargetLast(items, targetIssueKey) ==
    LET hits == {k \in 1..Len(items) : items[k].attributes.key = targetIssueKey}
    IN  IF hits = {} THEN 0 ELSE CHOOSE k \in hits : \A h \in hits : h <= k

\* lines 146-151: the index of the first item whose key is the target, or 0.
findTarget(items, targetIssueKey) ==
    LET hits == {k \in 1..Len(items) : items[k].attributes.key = targetIssueKey}
    IN  IF hits = {} THEN 0 ELSE Leftmost(hits)

\* A predicate that looks at the first coordinate only.
isReachableFirstOnly(foundIssue) ==
    LET coordinates == foundIssue.attributes.coordinates
    IN  /\ Truthy(coordinates)
        /\ Len(coordinates.v) > 0
        /\ coordinates.v[1].reachability \in {"function", "package"}

\* lines 255-263
isReachable(foundIssue) ==
    LET coordinates == foundIssue.attributes.coordinates
    IN  /\ Truthy(coordinates)
        /\ Len(coordinates.v) > 0
        /\ \E k \in 1..Len(coordinates.v) :
              \/ coordinates.v[k].reachability = "function"
              \/ coordinates.v[k].reachability = "package"

\* A loop that asks again for the page it has just read, whatever the next
\* link says, as long as there is one.
continueSearchSameUrl(st, next, token) ==
    LET again == IF st.currentUrl = Undef THEN next ELSE st.currentUrl
    IN  IF Truthy(next)
        THEN [st EXCEPT !.pc = "awaitPage",
                        !.currentUrl = again,
                        !.requests = Append(@, makeSnykApiRequest(again, token))]
        ELSE Return([st EXCEPT !.currentUrl = next],
                    Response(404, <<"Issue not found", st.issueId, st.projectId,
                                    st.orgSlug>>))

\* A loop that requests the next page twice over, without awaiting the first
\* of the two requests.
continueSearchTwice(st, next, token) ==
    IF Truthy(next)
    THEN [st EXCEPT !.pc = "awaitPage",
                    !.currentUrl = next,
                    !.requests = @ \o <<makeSnykApiRequest(next, token),
                                        makeSnykApiRequest(next, token)>>]
    ELSE Return([st EXCEPT !.currentUrl = next],
                Response(404, <<"Issue not found", st.issueId, st.projectId,
                                st.orgSlug>>))

\* lines 153, 133-135 and 161, 248-253: take the next link; request it when
\* there is one, answer not-found when there is none.
continueSearch(st, next, token) ==
    IF Truthy(next)
    THEN [st EXCEPT !.pc = "awaitPage",
                    !.currentUrl = next,
                    !.requests = Append(@, makeSnykApiRequest(next, token))]
    ELSE Return([st EXCEPT !.currentUrl = next],
                Response(404, <<"Issue not found", st.issueId, st.projectId,
                                st.orgSlug>>))

\* An organization id taken from the last item of the list.
lastOrgId(data) == data.v[Len(data.v)].id

\* line 241: orgsResponse.data.data[0].id
firstOrgId(data) == data.v[1].id

\* lines 234-246: the organization answer.
orgResolved(st, d, token) ==
    IF ~CanRead(d) THEN catchError(st, "Cannot read properties of null")
    ELSE
    LET data == GetProp(d, "data")
    IN  IF ~Truthy(data) \/ Len(data.v) = 0
        THEN Return(st, Response(404, <<"Organization not found", st.orgSlug>>))
        ELSE LET orgId == firstOrgId(data)
             IN  continueSearch([st EXCEPT !.orgId = orgId],
                                initialIssuesUrl(orgId, st.projectId,
                                                 st.snykApiSeverityParam),
                                token)

\* lines 137-159, then 248-276 when the loop returns: one page answer.
pageResolved(st, d, token) ==
    IF ~Truthy(d) \/ ~Truthy(GetProp(d, "data"))
    THEN IF ~CanRead(d) THEN catchError(st, "Cannot read properties of null")
         ELSE continueSearch(st, NextLink(d), token)
    ELSE LET items == GetProp(d, "data").v
             m == findTarget(items, st.issueId)
         IN  IF m # 0
             THEN Return(st, Verdict(items[m], isReachable(items[m])))
             ELSE continueSearch(st, NextLink(d), token)

\* A catch block that answers 500 whatever the upstream reported.
errorStatusAlways500(error) == 500

\* line 287: error.response?.status || 500
errorStatus(error) ==
    IF error.hasResponse /\ error.status # 0 THEN error.status ELSE 500

\* lines 284-293: the catch block for an axios error.
catchAxios(st, error) ==
    LET statusCode == errorStatus(error)
    IN  Return(st, Response(statusCode, <<"Snyk API request failed", error.detail>>))

\* The errors a request can be rejected with: no response at all (network
\* failure, timeout), or a response with a status outside 2xx.
AxiosErrors ==
    { [hasResponse |-> FALSE, status |-> 0, detail |-> FALSE],
      [hasResponse |-> TRUE, status |-> 401, detail |-> TRUE],
      [hasResponse |-> TRUE, status |-> 404, detail |-> TRUE],
      [hasResponse |-> TRUE, status |-> 503, detail |-> FALSE] }

\* How an awaited request settles: fulfilled with the response's data, or
\* rejected with an error.  The invocation's replies list them in order.
NoError == [hasResponse |-> FALSE, status |-> 0, detail |-> FALSE]
Fulfilled(st, d) ==
    [st EXCEPT !.replies = Append(@, [ok |-> TRUE, data |-> d, error |-> NoError])]
Rejected(st, error) ==
    [st EXCEPT !.replies = Append(@, [ok |-> FALSE, data |-> Undef, error |-> error])]

\* The token the handler read at line 182 is the one every request carries.
OrgResolve(i) ==
    /\ inv[i].pc = "awaitOrg"
    /\ inv' = [inv EXCEPT ![i] =
                 orgResolved(Fulfilled(inv[i], upstream.org), upstream.org, authToken)]
    /\ UNCHANGED <<authToken, upstream>>

PageResolve(i) ==
    /\ inv[i].pc = "awaitPage"
    /\ Len(inv[i].replies) < MaxFetches
    /\ LET d == PageAt(inv[i].currentUrl)
       IN  inv' = [inv EXCEPT ![i] = pageResolved(Fulfilled(inv[i], d), d, authToken)]
    /\ UNCHANGED <<authToken, upstream>>

FetchReject(i) ==
    /\ inv[i].pc \in {"awaitOrg", "awaitPage"}
    /\ \E error \in AxiosErrors :
          inv' = [inv EXCEPT ![i] = catchAxios(Rejected(inv[i], error), error)]
    /\ UNCHANGED <<authToken, upstream>>

-----------------------------------------------------------------------------
(* The inputs: requests, credentials and upstreams. *)

\* Severity texts: the four levels in several letter cases, and others.
SeverityStrings ==
    { <<>>,
      <<"h", "i", "g", "h">>,
      <<"H", "I", "G", "H">>,
      <<"H", "i", "G", "h">>,
      <<"c", "r", "i", "t", "i", "c", "a", "l">>,
      <<"C", "R", "I", "T", "I", "C", "A", "L">>,
      <<"m", "e", "d", "i", "u", "m">>,
      <<"M", "e", "d", "i", "u", "m">>,
      <<"l", "o", "w">>,
      <<"L", "O", "W">>,
      <<"h", "i", "g">>,
      <<"h", "i", "g", "h", "h">>,
      <<"u", "r", "g", "e", "n", "t">> }

\* Tracker URLs are a host, then one choice for each of the three parts.
Host == <<"h">>
OrgParts ==
    { <<"/", "o", "r", "g", "/", "a", "c">>,   \* a handle
      <<"/", "o", "r", "g", "/">>,   \* an empty handle
      <<"/", "o", "r", "g", "/", "a", "/", "c">>,   \* a slash in the handle
      <<>>,   \* no /org/ segment
      <<"/", "p", "r", "o", "j", "e", "c", "t", "/", "z", "z", "/", "o", "r", "g", "/", "a", "c">> }   \* a project segment before it
ProjectParts ==
    { <<"/", "p", "r", "o", "j", "e", "c", "t", "/", "1", "f", "-", "a">>,   \* a hex-and-hyphen id
      <<"/", "p", "r", "o", "j", "e", "c", "t", "/">>,   \* an empty id
      <<"/", "p", "r", "o", "j", "e", "c", "t", "/", "1", "z">>,   \* an id ending in another character
      <<>>,   \* no /project/ segment
      <<"/", "p", "r", "o", "j", "e", "c", "t", "/", "z", "z", "/", "p", "r", "o", "j", "e", "c", "t", "/", "1", "f">>,   \* a second project segment
      <<"/", "p", "r", "o", "j", "e", "c", "t", "/", "1", "f", "/", "x">> }   \* a path after the id
Fragments ==
    { <<"#", "i", "s", "s", "u", "e", "-", "S", "1">>,   \* a key
      <<"#", "i", "s", "s", "u", "e", "-">>,   \* an empty key
      <<>>,   \* no fragment
      <<"#", "S", "1">>,   \* a fragment without the marker
      <<"#", "i", "s", "s", "u", "e", "-", "s", "1">>,   \* the key in lower case
      <<"#", "i", "s", "s", "u", "e", "-", "S", "1", "#", "i", "s", "s", "u", "e", "-", "x">>,   \* the marker twice
      <<"#", "x", "#", "i", "s", "s", "u", "e", "-", "S", "1">> }   \* a fragment before the marker
UrlStrings == {Host \o o \o p \o f : o \in OrgParts, p \in ProjectParts, f \in Fragments}

GoodUrl ==
    <<"h", "/", "o", "r", "g", "/", "a", "c", "/", "p", "r", "o", "j", "e", "c", "t", "/">> \o
    <<"1", "f", "-", "a", "#", "i", "s", "s", "u", "e", "-", "S", "1">>
TargetKey == <<"S", "1">>
OtherKey == <<"s", "1">>
Token == Str(<<"t", "o", "k">>)

\* A JSON object with the two members; a member that is Undef is left out.
RequestObject(url, severity) ==
    LET val(n) == IF n = "snykIssueUrl" THEN url ELSE severity
    IN  Obj([n \in {m \in {"snykIssueUrl", "severity"} : val(m) # Undef} |-> val(n)])

UrlValues == {Undef, Null, Num(5), Str(<<>>)} \cup {Str(u) : u \in UrlStrings}
SeverityValues == {Undef, Null, Num(0), Num(5)} \cup {Str(v) : v \in SeverityStrings}
Bodies ==
    {Null, Str(<<>>), BadJson, Json(Null), Json(Num(5))}
    \cup {Json(RequestObject(u, v)) : u \in UrlValues, v \in SeverityValues}
Tokens == {Undef, Str(<<>>), Token}
ValidBody == Json(RequestObject(Str(GoodUrl), Str(<<"H", "i", "g", "h">>)))

\* Coordinate lists: absent, or up to MaxCoords coordinates.
Reachabilities == {"function", "package", "no-info", "Function"}
CoordinateLists ==
    {Undef} \cup
    {Arr([k \in 1..Len(r) |-> [reachability |-> r[k]]]) :
        r \in UNION {[1..m -> Reachabilities] : m \in 0..MaxCoords}}

\* The organization answers: no envelope, an empty body, an envelope without
\* the list, or a list of up to MaxOrgs organizations.
Org9 == Str(<<"o", "r", "g", "-", "9">>)
Org7 == Str(<<"o", "r", "g", "-", "7">>)
OrgIds == {Org9, Org7}
OrgNext == [t |-> "url", api |-> "orgs", slug |-> Str(<<"n", "e", "x", "t">>)]
OrgEnvelope(ids) ==
    Obj([data |-> Arr([k \in 1..Len(ids) |-> [id |-> ids[k]]]),
         links |-> Obj([next |-> OrgNext])])
OrgAnswers ==
    {Null, Str(<<>>), Obj([data |-> Undef, links |-> Obj([next |-> OrgNext])])}
    \cup {OrgEnvelope(ids) : ids \in UNION {[1..m -> OrgIds] : m \in 0..MaxOrgs}}
OneOrg == OrgEnvelope(<<Org9>>)

\* The record at slot s of page j: its id is its own, its key is given.
Digits == <<"0", "1", "2", "3", "4", "5", "6", "7", "8", "9">>
IssueId(j, s) == Str(<<"i", "d", "-", Digits[j + 1], "-", Digits[s + 1]>>)
Record(j, s, key, coordinates) ==
    [id |-> IssueId(j, s),
     attributes |-> [key |-> Str(key), coordinates |-> coordinates]]
SlotCoordinates(s) ==
    IF s = 1 THEN Arr(<<[reachability |-> "no-info"]>>)
    ELSE Arr(<<[reachability |-> "no-info"], [reachability |-> "package"]>>)

\* What one page holds: no list (Undef) or the keys of its records.
RECURSIVE KeyLists(_)
KeyLists(n) ==
    IF n = 0 THEN {<<>>}
    ELSE KeyLists(n - 1) \cup
         {Append(ks, k) : ks \in {l \in KeyLists(n - 1) : Len(l) = n - 1},
                          k \in {TargetKey, OtherKey}}
Held(content) == IF content = Undef THEN 0 ELSE Len(content.v)
Contents(r) == {Undef} \cup {Arr(ks) : ks \in KeyLists(r)}

\* The chains of n pages holding at most r records in all.
RECURSIVE Chains(_, _)
Chains(n, r) ==
    IF n = 0 THEN {<<>>}
    ELSE UNION {{<<c>> \o rest : rest \in Chains(n - 1, r - Held(c))} : c \in Contents(r)}

\* How the last page of a chain ends it: without links, with links that have
\* no next, or (a page without a list only) with no envelope or an empty body.
Tails(chain) ==
    {"nolinks", "nonext"} \cup
    (IF chain[Len(chain)] = Undef THEN {"null", "empty"} ELSE {})

Page(j, n, content, tail) ==
    IF j = n /\ tail = "null" THEN Null
    ELSE IF j = n /\ tail = "empty" THEN Str(<<>>)
    ELSE Obj([data |-> IF content = Undef THEN Undef
                       ELSE Arr([s \in 1..Len(content.v) |->
                                   Record(j, s, content.v[s], SlotCoordinates(s))]),
              links |-> IF j < n THEN Obj([next |-> Cursor(j + 1)])
                        ELSE IF tail = "nolinks" THEN Undef ELSE EmptyObj])
Pages(chain, tail) ==
    [j \in 1..Len(chain) |-> Page(j, Len(chain), chain[j], tail)]
PageChains ==
    UNION {{Pages(c, t) : t \in Tails(c)} :
             c \in UNION {Chains(n, MaxRecords) : n \in 1..MaxPages}}

\* A collection of two pages with the target on the second.
TwoPages == Pages(<<Arr(<<OtherKey>>), Arr(<<OtherKey, TargetKey>>)>>, "nolinks")
\* Collections that hold the target more than once, among records whose key
\* differs from it in letter case.
RepeatedKeyPages ==
    {Pages(<<Arr(<<OtherKey, TargetKey>>), Arr(<<TargetKey>>)>>, "nolinks"),
     Pages(<<Arr(<<OtherKey, TargetKey, TargetKey>>), Arr(<<OtherKey>>)>>, "nonext"),
     Pages(<<Arr(<<OtherKey>>), Undef, Arr(<<TargetKey, OtherKey, TargetKey>>)>>, "nolinks")}
\* Collections whose cursors never end: the last page links back to the
\* cursor of page k, its own or an earlier one.
LoopBack(ps, k) ==
    [ps EXCEPT ![Len(ps)] = Obj([data |-> GetProp(ps[Len(ps)], "data"),
                                 links |-> Obj([next |-> Cursor(k)])])]
LoopPages ==
    UNION {{LoopBack(Pages(c, "nonext"), k) : k \in 1..Len(c)} :
             c \in UNION {Chains(n, 1) : n \in 1..2}}

\* One page with one record, the target, with the given coordinates.
OnePage(coordinates) ==
    <<Obj([data |-> Arr(<<Record(1, 1, TargetKey, coordinates)>>), links |-> Undef])>>

-----------------------------------------------------------------------------
(* The specification: one invocation, its inputs drawn from four families, *)
(* each varying the inputs of one stage over all its values.               *)

InitRequests ==
    /\ authToken \in Tokens
    /\ upstream = [org |-> OneOrg, pages |-> TwoPages]
    /\ \E b \in Bodies : inv = [i \in {1} |-> NewInvocation(b)]
InitOrgs ==
    /\ authToken = Token
    /\ \E o \in OrgAnswers : upstream = [org |-> o, pages |-> TwoPages]
    /\ inv = [i \in {1} |-> NewInvocation(ValidBody)]
InitPages ==
    /\ authToken = Token
    /\ \E ps \in PageChains \cup RepeatedKeyPages :
          upstream = [org |-> OneOrg, pages |-> ps]
    /\ inv = [i \in {1} |-> NewInvocation(ValidBody)]
InitCoordinates ==
    /\ authToken = Token
    /\ \E c \in CoordinateLists : upstream = [org |-> OneOrg, pages |-> OnePage(c)]
    /\ inv = [i \in {1} |-> NewInvocation(ValidBody)]

Init == InitRequests \/ InitOrgs \/ InitPages \/ InitCoordinates

Next ==
    \E i \in DOMAIN inv :
        \/ Invoke(i)
        \/ OrgResolve(i)
        \/ PageResolve(i)
        \/ FetchReject(i)

Spec == Init /\ [][Next]_vars

-----------------------------------------------------------------------------
(* Two invocations of the handler in one process, their steps interleaved   *)
(* in every way, against one upstream and one credential.                   *)

\* Requests of two invocations: well-formed ones for the two keys, one with a
\* severity that is no level, one whose body is JSON null, one malformed.
LowBody == Json(RequestObject(Str(Host \o <<"/", "o", "r", "g", "/", "b">> \o
                                 <<"/", "p", "r", "o", "j", "e", "c", "t", "/", "2">> \o
                                 <<"#", "i", "s", "s", "u", "e", "-", "s", "1">>),
                             Str(<<"l", "o", "w">>)))
PairBodies ==
    {ValidBody, LowBody, BadJson, Json(Null),
     Json(RequestObject(Str(GoodUrl), Str(<<"u", "r", "g", "e", "n", "t">>)))}

\* The collections they search: the two pages, the same two with the pages
\* exchanged, and one page without the list.
PairPages ==
    {TwoPages,
     Pages(<<Arr(<<OtherKey, TargetKey>>), Arr(<<OtherKey>>)>>, "nonext"),
     Pages(<<Undef>>, "nolinks")}

InitTwo ==
    /\ authToken = Token
    /\ \E ps \in PairPages : upstream = [org |-> OneOrg, pages |-> ps]
    /\ \E b1 \in PairBodies, b2 \in PairBodies :
          inv = [i \in {1, 2} |-> IF i = 1 THEN NewInvocation(b1) ELSE NewInvocation(b2)]

SpecTwo == InitTwo /\ [][Next]_vars

-----------------------------------------------------------------------------
(* One invocation against upstreams whose cursors end and upstreams whose   *)
(* cursors come back to a page already served.                              *)

InitLoops ==
    /\ authToken = Token
    /\ \E ps \in LoopPages : upstream = [org |-> OneOrg, pages |-> ps]
    /\ inv = [i \in {1} |-> NewInvocation(ValidBody)]

SpecCursors == (InitPages \/ InitLoops) /\ [][Next]_vars

-----------------------------------------------------------------------------
(* The same steps with the scheduling the platform and the HTTP client give: *)
(* an invocation that was received is run, and a request that was issued    *)
(* settles, by an answer, an error or the timeout of 10 s (line 113).       *)

Settle(i) == OrgResolve(i) \/ PageResolve(i) \/ FetchReject(i)
Fairness == \A i \in {1} : WF_vars(Invoke(i)) /\ WF_vars(Settle(i))

InitFair ==
    /\ authToken = Token
    /\ \E ps \in PairPages \cup RepeatedKeyPages \cup {l \in LoopPages : Len(l) = 1} :
          upstream = [org |-> OneOrg, pages |-> ps]
    /\ \E b \in PairBodies : inv = [i \in {1} |-> NewInvocation(b)]

SpecFair == InitFair /\ [][Next]_vars /\ Fairness

-----------------------------------------------------------------------------
(* What the properties observe. *)

Invocations == DOMAIN inv
Ran(i) == inv[i].pc # "start"
Done(i) == inv[i].pc = "done"
TheResponse(i) == inv[i].response[1]
Status(i) == TheResponse(i).statusCode
Said(i, text) == TheResponse(i).body.message[1] = text
AllFulfilled(i) == \A n \in 1..Len(inv[i].replies) : inv[i].replies[n].ok

\* The requests of the issue search: all but the organization lookup.
PageRequests(i) == SubSeq(inv[i].requests, 2, Len(inv[i].requests))

\* The upstream's pages as a chain: every page is an envelope (its list and
\* its links may be missing), page j links to page j + 1, the last to none.
IsEnvelope(d) == d.t = "obj"
IsChain(pages) ==
    /\ Len(pages) >= 1
    /\ \A j \in 1..Len(pages) :
          /\ CanRead(pages[j])
          /\ NextLink(pages[j]) = IF j < Len(pages) THEN Cursor(j + 1) ELSE Undef
ItemsOf(d) ==
    IF IsEnvelope(d) /\ GetProp(d, "data").t = "arr" THEN GetProp(d, "data").v ELSE <<>>
HoldsKey(d, key) == \E s \in 1..Len(ItemsOf(d)) : ItemsOf(d)[s].attributes.key = key
PagesWith(key) == {j \in 1..Len(upstream.pages) : HoldsKey(upstream.pages[j], key)}

\* The requests that fetch pages 1..k of the chain, in order, once each.
FetchesFirst(i, k) ==
    /\ Len(PageRequests(i)) = k
    /\ \A j \in 1..k :
          PageRequests(i)[j].url =
              IF j = 1 THEN initialIssuesUrl(inv[i].orgId, inv[i].projectId,
                                             inv[i].snykApiSeverityParam)
              ELSE Cursor(j)

\* The record the search found: on the page fetched last, the first item in
\* the order returned whose key is the issue key of the URL.
LastData(i) == inv[i].replies[Len(inv[i].replies)].data
Found(i) ==
    /\ Len(inv[i].replies) >= 2
    /\ inv[i].replies[Len(inv[i].replies)].ok
    /\ HoldsKey(LastData(i), inv[i].issueId)
FoundRecord(i) ==
    LET items == ItemsOf(LastData(i))
        s == CHOOSE s \in 1..Len(items) :
                /\ items[s].attributes.key = inv[i].issueId
                /\ \A r \in 1..(s - 1) : items[r].attributes.key # inv[i].issueId
    IN  items[s]

-----------------------------------------------------------------------------
(* The properties. *)

\* C1: over a chain of N pages, when no fetch fails: if the target key is on
\* page k only, the search fetches pages 1..k, once each and in order, and the
\* handler answers 200 with a record of page k that has the key; if the key is
\* on no page, it fetches all N pages, once each and in order, and the handler
\* answers 404.
C1_PaginationStopsAtTarget ==
    \A i \in Invocations :
        (Done(i) /\ Len(inv[i].replies) >= 2 /\ AllFulfilled(i) /\ IsChain(upstream.pages)) =>
            LET on == PagesWith(inv[i].issueId)
                N == Len(upstream.pages)
            IN  /\ \A k \in 1..N :
                      on = {k} =>
                          /\ FetchesFirst(i, k)
                          /\ Status(i) = 200
                          /\ TheResponse(i).body.fullIssueData.attributes.key = inv[i].issueId
                          /\ \E s \in 1..Len(ItemsOf(upstream.pages[k])) :
                                ItemsOf(upstream.pages[k])[s] = TheResponse(i).body.fullIssueData
                /\ on = {} =>
                      /\ FetchesFirst(i, N)
                      /\ Status(i) = 404
                      /\ Said(i, "Issue not found")

\* C1 witness: three pages, the key on the second only, found after two fetches.
C1_Witness ==
    /\ Done(1) /\ AllFulfilled(1) /\ IsChain(upstream.pages)
    /\ Len(upstream.pages) = 3
    /\ PagesWith(inv[1].issueId) = {2}
    /\ Len(PageRequests(1)) = 2
    /\ Status(1) = 200

\* The coordinates that count: reachability exactly "function" or "package".
Qualifying(coordinates) ==
    {k \in 1..Len(coordinates) : coordinates[k].reachability \in {"function", "package"}}

\* C2: in a 200 response, isReachable is true exactly when the found record has
\* a coordinate list with at least one coordinate whose reachability is exactly
\* "function" or "package"; it is false for an absent or empty list and when
\* every coordinate has another value.
C2_ReachableIffQualifyingCoordinate ==
    \A i \in Invocations :
        (Done(i) /\ Status(i) = 200) =>
            LET c == FoundRecord(i).attributes.coordinates
            IN  /\ TheResponse(i).body.isReachable =
                      (c.t = "arr" /\ Qualifying(c.v) # {})
                /\ (c = Undef \/ c = Arr(<<>>)) => ~TheResponse(i).body.isReachable
                /\ (c.t = "arr" /\ \A k \in 1..Len(c.v) :
                        c.v[k].reachability \in {"no-info", "Function"})
                      => ~TheResponse(i).body.isReachable

\* C2 witness: a verdict of true that rests on the second coordinate alone.
C2_Witness ==
    /\ Done(1) /\ Status(1) = 200
    /\ TheResponse(1).body.isReachable
    /\ FoundRecord(1).attributes.coordinates.t = "arr"
    /\ Qualifying(FoundRecord(1).attributes.coordinates.v) = {2}

\* The request as its sender wrote it.
Malformed(i) == inv[i].event.t = "json" /\ ~inv[i].event.ok
Parsed(i) == inv[i].event.t = "json" /\ inv[i].event.ok
Member(i, name) ==
    IF Parsed(i) /\ CanRead(inv[i].event.val)
    THEN GetProp(inv[i].event.val, name) ELSE Undef
Lacks(i, name) == ~Malformed(i) /\ Member(i, name) = Undef
BothPresent(i) ==
    Truthy(Member(i, "snykIssueUrl")) /\ Truthy(Member(i, "severity"))
NoNetworkCall(i) == inv[i].requests = <<>>

\* C3 (as claimed): every request whose body is malformed JSON, or lacks
\* snykIssueUrl, or lacks severity, is answered 400, and no network call is made
\* at any point of the invocation.
C3_MissingInputIs400 ==
    \A i \in Invocations :
        /\ (Malformed(i) \/ Lacks(i, "snykIssueUrl") \/ Lacks(i, "severity")) =>
              NoNetworkCall(i)
        /\ (Ran(i) /\ (Malformed(i) \/ Lacks(i, "snykIssueUrl") \/ Lacks(i, "severity"))) =>
              (Done(i) /\ Status(i) = 400)

SameIgnoringCase(a, level) ==
    /\ Len(a) = Len(level)
    /\ \A k \in 1..Len(a) :
          \/ a[k] = level[k]
          \/ \E n \in 1..Len(UpperCase) : UpperCase[n] = a[k] /\ LowerCase[n] = level[k]
IsLevel(a) == \E level \in validSeverities : SameIgnoringCase(a, level)
RejectedAsSeverity(i) ==
    /\ Done(i) /\ Status(i) = 400 /\ NoNetworkCall(i)
    /\ Said(i, "Invalid severity level") \/ Said(i, "Missing snykIssueUrl or severity")

\* C5: a severity text is accepted exactly when it is critical, high, medium or
\* low up to the case of its letters.  Where the severity check is reached (a
\* snykIssueUrl is present and the credential is configured) every other text
\* is rejected with 400; the empty text is rejected with 400 wherever it
\* occurs; and no text that is not a level ever leads to a network call.
C5_SeverityAcceptedIffLevel ==
    \A i \in Invocations :
        LET severity == Member(i, "severity")
        IN  severity.t = "str" =>
              /\ ~IsLevel(severity.v) => NoNetworkCall(i)
              /\ (Ran(i) /\ severity.v = <<>>) => RejectedAsSeverity(i)
              /\ (Ran(i) /\ Truthy(Member(i, "snykIssueUrl")) /\ Truthy(authToken)) =>
                    (IsLevel(severity.v) <=> ~RejectedAsSeverity(i))

\* C5 witness: a level in mixed case got past the check, to the first request.
C5_Witness ==
    /\ Member(1, "severity") = Str(<<"H", "i", "G", "h">>)
    /\ inv[1].pc = "awaitOrg"
    /\ inv[1].snykApiSeverityParam = Str(<<"h", "i", "g", "h">>)

\* The three parts of a tracker URL, stated on the text itself.
Within(c, set) == \A k \in 1..Len(c) : c[k] \in set
Outside(c, ch) == \A k \in 1..Len(c) : c[k] # ch
HandleAt(u, p, h) ==
    h # <<>> /\ Outside(h, "/") /\ HasAt(u, p, SegOrg \o h \o SegProject)
ProjectAt(u, p, d) ==
    /\ d # <<>> /\ Within(d, HexHyphen) /\ HasAt(u, p, SegProject \o d)
    /\ LET e == p + Len(SegProject) + Len(d)
       IN  e = Len(u) + 1 \/ u[e] = "#"
KeyAt(u, p, k) == k # <<>> /\ SubSeq(u, p, Len(u)) = MarkIssue \o k
\* The texts that start right after a literal found at p: <<p, text>>.
After(u, lit) ==
    {<<p, SubSeq(u, p + Len(lit), e)>> :
        p \in {q \in 1..Len(u) : HasAt(u, q, lit)}, e \in 1..Len(u)}
Handles(u) == {x \in After(u, SegOrg) : HandleAt(u, x[1], x[2])}
Projects(u) == {x \in After(u, SegProject) : ProjectAt(u, x[1], x[2])}
Keys(u) == {x \in After(u, MarkIssue) : KeyAt(u, x[1], x[2])}
First(xs) == (CHOOSE x \in xs : \A y \in xs : x[1] <= y[1])[2]
ReachesDecompose(i) ==
    /\ Ran(i) /\ Truthy(authToken)
    /\ Member(i, "snykIssueUrl").t = "str" /\ Truthy(Member(i, "snykIssueUrl"))
    /\ Member(i, "severity").t = "str" /\ IsLevel(Member(i, "severity").v)

\* C6: a tracker URL that holds /org/<handle>/project/, a hex-and-hyphen project
\* id ended by '#' or the end of the text, and '#issue-' with a key after it is
\* decomposed into exactly those three texts (the first of each in the URL), and
\* the organization request is made for that handle; a URL that misses any of
\* the three is answered with the one 400 failure, no value is extracted and no
\* network call is made.
C6_DecomposeAllOrNothing ==
    \A i \in Invocations :
        ReachesDecompose(i) =>
            LET u == Member(i, "snykIssueUrl").v
                handles == Handles(u)
                projects == Projects(u)
                keys == Keys(u)
            IN  IF handles # {} /\ projects # {} /\ keys # {}
                THEN /\ inv[i].orgSlug = Str(First(handles))
                     /\ inv[i].projectId = Str(First(projects))
                     /\ inv[i].issueId = Str(First(keys))
                     /\ inv[i].requests[1].url = orgsUrl(Str(First(handles)))
                ELSE /\ Done(i) /\ Status(i) = 400
                     /\ Said(i, "Invalid Snyk issue URL format")
                     /\ NoNetworkCall(i)
                     /\ inv[i].orgSlug = Undef
                     /\ inv[i].projectId = Undef
                     /\ inv[i].issueId = Undef

\* C6 witness: a URL with two project segments and the marker twice, decomposed.
C6_Witness ==
    /\ inv[1].pc = "awaitOrg"
    /\ inv[1].orgSlug = Str(<<"a", "c">>)
    /\ inv[1].projectId = Str(<<"1", "f">>)
    /\ inv[1].issueId = Str(<<"S", "1", "#", "i", "s", "s", "u", "e", "-", "x">>)

\* C7: the organization is resolved by one lookup request, and the next link of
\* its answer is never requested.  When the answer holds no list or an empty
\* one, the handler answers 404 and fetches no issue page; otherwise the id of
\* the first item of the list is the organization the issue search is made for.
C7_OrgFromFirstItemOfOneLookup ==
    \A i \in Invocations :
        /\ \A n \in 1..Len(inv[i].requests) :
              (inv[i].requests[n].url.api = "orgs") <=> (n = 1)
        /\ Len(inv[i].requests) >= 1 => inv[i].requests[1].url = orgsUrl(inv[i].orgSlug)
        /\ (Len(inv[i].replies) >= 1 /\ inv[i].replies[1].ok
              /\ CanRead(inv[i].replies[1].data)) =>
              LET list == GetProp(inv[i].replies[1].data, "data")
              IN  IF list = Undef \/ list = Arr(<<>>)
                  THEN /\ Done(i) /\ Status(i) = 404
                       /\ Said(i, "Organization not found")
                       /\ Len(inv[i].requests) = 1
                  ELSE /\ inv[i].orgId = list.v[1].id
                       /\ Len(inv[i].requests) >= 2
                       /\ inv[i].requests[2].url.api = "issues"
                       /\ inv[i].requests[2].url.org = list.v[1].id

\* C7 witness: two organizations answered, the search made for the first.
C7_Witness ==
    /\ Len(inv[1].replies) >= 1 /\ inv[1].replies[1].ok
    /\ inv[1].replies[1].data = OrgEnvelope(<<Org7, Org9>>)
    /\ Len(inv[1].requests) = 2
    /\ inv[1].requests[2].url.org = Org7

\* C8: a rejected request, the organization lookup or a page, ends the
\* invocation at once: it is the last request made, it is made once, and the
\* response carries the status the upstream reported, or 500 when it reported
\* none.
C8_RejectedFetchIsTerminal ==
    \A i \in Invocations :
        \A n \in 1..Len(inv[i].replies) :
            ~inv[i].replies[n].ok =>
                LET error == inv[i].replies[n].error
                IN  /\ n = Len(inv[i].replies)
                    /\ n = Len(inv[i].requests)
                    /\ \A m \in 1..(n - 1) : inv[i].requests[m].url # inv[i].requests[n].url
                    /\ Done(i)
                    /\ Status(i) = IF error.hasResponse THEN error.status ELSE 500
                    /\ Said(i, "Snyk API request failed")

\* C8 witness: the second page request is rejected with 404, answered 404.
C8_Witness ==
    /\ Done(1) /\ Len(inv[1].replies) = 3
    /\ ~inv[1].replies[3].ok
    /\ inv[1].replies[3].error.status = 404
    /\ Status(1) = 404

\* C9 (as claimed): every invocation ends in a response, of status 200, 400,
\* 404, 500 or the status the upstream reported; none ends with an exception
\* that nothing catches.
C9_EveryRequestGetsAResponse ==
    \A i \in Invocations :
        /\ inv[i].pc # "threw"
        /\ Done(i) =>
              /\ Len(inv[i].response) = 1
              /\ Status(i) \in {200, 400, 404, 500} \cup {e.status : e \in AxiosErrors}

\* C10: the search found a record exactly when the response has status 200, and
\* then issueId is the id of that record, fullIssueData is the record as it was
\* received, and isReachable is the reachability predicate of that record.
C10_VerdictCarriesFoundRecord ==
    \A i \in Invocations :
        Done(i) =>
            /\ Found(i) <=> Status(i) = 200
            /\ Found(i) =>
                  LET body == TheResponse(i).body
                      coordinates == FoundRecord(i).attributes.coordinates
                  IN  /\ DOMAIN body = {"issueId", "isReachable", "fullIssueData"}
                      /\ body.issueId = FoundRecord(i).id
                      /\ body.fullIssueData = FoundRecord(i)
                      /\ body.isReachable =
                            (coordinates.t = "arr" /\ Qualifying(coordinates.v) # {})

\* C10 witness: the second record of the second page found and reported.
C10_Witness ==
    /\ Done(1) /\ Status(1) = 200
    /\ TheResponse(1).body.issueId = IssueId(2, 2)
    /\ TheResponse(1).body.fullIssueData.id = IssueId(2, 2)

-----------------------------------------------------------------------------
(* Properties of two invocations. *)

Finished(i) == inv[i].pc \in {"done", "threw"}

\* The upstream answered the two invocations alike: a request both made was
\* settled for both in the same way.
SameAnswers(i, j) ==
    \A n \in 1..Len(inv[i].replies), m \in 1..Len(inv[j].replies) :
        inv[i].requests[n] = inv[j].requests[m] => inv[i].replies[n] = inv[j].replies[m]

\* C11: two invocations with the same request and the same credential, whose
\* requests the one upstream settled alike, end alike: both with a response, of
\* the same status and the same body, after the same requests, or both with none.
C11_IdenticalInvocationsAnswerAlike ==
    \A i \in Invocations, j \in Invocations :
        (inv[i].event = inv[j].event /\ Finished(i) /\ Finished(j) /\ SameAnswers(i, j)) =>
            /\ inv[i].pc = inv[j].pc
            /\ inv[i].requests = inv[j].requests
            /\ inv[i].response = inv[j].response

\* C11 witness: the same request made twice, both answered with the same verdict
\* after three requests each.
C11_Witness ==
    /\ inv[1].event = inv[2].event
    /\ Done(1) /\ Done(2)
    /\ Len(inv[1].replies) = 3 /\ Len(inv[2].replies) = 3
    /\ Status(1) = 200 /\ TheResponse(1) = TheResponse(2)

\* How the requests of an invocation settled, without what they were answered.
Outcomes(i) ==
    [n \in 1..Len(inv[i].replies) |->
        [ok |-> inv[i].replies[n].ok, error |-> inv[i].replies[n].error]]

\* The invocation run alone: the handler applied to the event, each awaited
\* request settled as the outcomes say, a fulfilled one with the upstream's
\* answer to the URL requested.
RECURSIVE Alone(_, _)
Alone(st, outcomes) ==
    IF st.pc = "start" THEN Alone(handlerEntry(st, authToken), outcomes)
    ELSE IF st.pc \in {"done", "threw"} \/ outcomes = <<>> THEN st
    ELSE LET o == Head(outcomes)
             url == st.requests[Len(st.requests)].url
             d == IF url.api = "orgs" THEN upstream.org
                  ELSE IF url.api = "issues" THEN upstream.pages[1]
                  ELSE upstream.pages[url.page]
         IN  IF ~o.ok
             THEN Alone(catchAxios(Rejected(st, o.error), o.error), Tail(outcomes))
             ELSE IF url.api = "orgs"
             THEN Alone(orgResolved(Fulfilled(st, d), d, authToken), Tail(outcomes))
             ELSE Alone(pageResolved(Fulfilled(st, d), d, authToken), Tail(outcomes))

\* C12: whatever the interleaving of the steps of two invocations, each one
\* has, at every point, made the requests, received the answers and returned
\* the response that it makes, receives and returns when it runs alone against
\* the same upstream with its requests settling in the same way.
C12_InterleavingChangesNothing ==
    \A i \in Invocations :
        Ran(i) => inv[i] = Alone(NewInvocation(inv[i].event), Outcomes(i))

\* C12 witness: two invocations looking for different keys in the same pages,
\* each answered with its own record, one after three requests and the other
\* after two.
C12_Witness ==
    /\ Done(1) /\ Done(2)
    /\ inv[1].issueId = Str(TargetKey) /\ inv[2].issueId = Str(OtherKey)
    /\ Status(1) = 200 /\ Status(2) = 200
    /\ TheResponse(1).body.fullIssueData.attributes.key = Str(TargetKey)
    /\ TheResponse(2).body.fullIssueData.attributes.key = Str(OtherKey)
    /\ Len(inv[1].requests) = 3 /\ Len(inv[2].requests) = 2

-----------------------------------------------------------------------------
(* Properties of the search, continued. *)

\* The first record of the collection with the key: on the first page that
\* holds the key, the first item in the order returned whose key is the same
\* text, character for character.
FirstPageWith(key) == CHOOSE k \in PagesWith(key) : \A j \in PagesWith(key) : k <= j
FirstWith(items, key) ==
    items[CHOOSE s \in 1..Len(items) :
            /\ items[s].attributes.key = key
            /\ \A r \in 1..(s - 1) : items[r].attributes.key # key]
Occurrences(key) ==
    UNION {{<<j, s>> : s \in {r \in 1..Len(ItemsOf(upstream.pages[j])) :
                                ItemsOf(upstream.pages[j])[r].attributes.key = key}} :
             j \in 1..Len(upstream.pages)}

\* C13: over a chain of pages that holds the target key, once or more, when no
\* fetch fails: the handler answers with the first record that has the key, in
\* page order and within the page in the order returned; a record whose key
\* differs in letter case only is passed over; and the page of that record is
\* the last one requested, whether or not it links to a next page.
C13_FirstMatchEndsTheSearch ==
    \A i \in Invocations :
        (Done(i) /\ Len(inv[i].replies) >= 2 /\ AllFulfilled(i)
            /\ IsChain(upstream.pages) /\ PagesWith(inv[i].issueId) # {}) =>
            LET k == FirstPageWith(inv[i].issueId)
                found == FirstWith(ItemsOf(upstream.pages[k]), inv[i].issueId)
            IN  /\ Status(i) = 200
                /\ TheResponse(i).body.fullIssueData = found
                /\ TheResponse(i).body.issueId = found.id
                /\ found.attributes.key = inv[i].issueId
                /\ FetchesFirst(i, k)
                /\ \A n \in 1..Len(inv[i].requests) :
                      inv[i].requests[n].url # NextLink(upstream.pages[k])

\* C13 witness: the key on the first page, after a record whose key differs in
\* case, and again on the second page; the first is reported and the second
\* page, which the first links to, is never requested.
C13_Witness ==
    /\ Done(1) /\ Status(1) = 200 /\ IsChain(upstream.pages)
    /\ Occurrences(inv[1].issueId) = {<<1, 2>>, <<2, 1>>}
    /\ ItemsOf(upstream.pages[1])[1].attributes.key = Str(OtherKey)
    /\ NextLink(upstream.pages[1]) = Cursor(2)
    /\ TheResponse(1).body.issueId = IssueId(1, 2)
    /\ Len(PageRequests(1)) = 1

\* A page answer that is fulfilled and has no item list or an empty one: no
\* body at all, an empty body, an envelope without the list or with an empty
\* list.  Its next cursor, when it has one.
Listless(d) == ItemsOf(d) = <<>>
CursorOf(d) == IF CanRead(d) THEN NextLink(d) ELSE Undef

\* C14 (as claimed): a fetched page without an item list, or with an empty one,
\* never ends the invocation with an error: when it has a next cursor, that
\* cursor is the next request, and when it has none, the handler answers
\* not-found (404).
C14_ListlessPageIsNoError ==
    \A i \in Invocations :
        \A n \in 2..Len(inv[i].replies) :
            (inv[i].replies[n].ok /\ Listless(inv[i].replies[n].data)) =>
                LET next == CursorOf(inv[i].replies[n].data)
                IN  IF Truthy(next)
                    THEN /\ Len(inv[i].requests) >= n + 1
                         /\ inv[i].requests[n + 1].url = next
                    ELSE /\ Len(inv[i].requests) = n
                         /\ Done(i) /\ Status(i) = 404
                         /\ Said(i, "Issue not found")

\* Each request after the first issue page asks for the next cursor of the
\* answer to the request before it.
FollowsCursors(i) ==
    \A n \in 3..Len(inv[i].requests) :
        /\ inv[i].replies[n - 1].ok
        /\ Truthy(CursorOf(inv[i].replies[n - 1].data))
        /\ inv[i].requests[n].url = CursorOf(inv[i].replies[n - 1].data)
\* No cursor is requested twice.
NoCursorTwice(i) ==
    \A n \in 3..Len(inv[i].requests), m \in 3..Len(inv[i].requests) :
        inv[i].requests[n].url = inv[i].requests[m].url => n = m
\* The upstream's cursors end: every next link leads to a later page.
FiniteChain(pages) ==
    \A j \in 1..Len(pages) :
        Truthy(CursorOf(pages[j])) => CursorOf(pages[j]).page > j

\* C15 (as claimed): in every invocation, each issue-page URL requested after
\* the initial one is the next cursor of the answer to the request before it,
\* and no cursor is requested more than once.
C15_CursorsFollowedNeverReused ==
    \A i \in Invocations : FollowsCursors(i) /\ NoCursorTwice(i)

\* C15 (amended): in every invocation, each issue-page URL requested after the
\* initial one is the next cursor of the answer to the request before it; and
\* when the upstream's chain of next cursors is finite, no cursor is requested
\* more than once.
C15_CursorsFollowedNeverReusedOnFiniteChain ==
    \A i \in Invocations :
        /\ FollowsCursors(i)
        /\ FiniteChain(upstream.pages) => NoCursorTwice(i)

\* C15 witness: a finite chain of three pages without the key, each cursor
\* requested once, in the order supplied.
C15_Witness ==
    /\ FiniteChain(upstream.pages) /\ Len(upstream.pages) = 3
    /\ Done(1) /\ Status(1) = 404
    /\ Len(inv[1].requests) = 4
    /\ inv[1].requests[3].url = Cursor(2)
    /\ inv[1].requests[4].url = Cursor(3)

\* C16 (as claimed): when every fetch settles and the upstream's chain of next
\* cursors is finite, every invocation eventually returns a response.
C16_EveryInvocationReturns ==
    FiniteChain(upstream.pages) => <>(\A i \in Invocations : Done(i))

\* The requests whose handling ends in an exception that nothing catches: a
\* body that is JSON null, and a severity that is neither empty nor a text
\* beside a URL and a configured credential.
Throws(i) ==
    \/ inv[i].event = Json(Null)
    \/ /\ BothPresent(i) /\ Truthy(authToken)
       /\ Member(i, "severity").t # "str"

\* C16, the part that holds: under the same conditions every invocation
\* eventually ends, and it ends with a response unless the request is one of
\* those that throw; the pagination loop does not run forever.
C16_EveryInvocationEnds ==
    FiniteChain(upstream.pages) =>
        <>(\A i \in Invocations : Finished(i) /\ (Done(i) \/ Throws(i)))

\* The requests of an invocation that have not settled yet.
InFlight(i) == Len(inv[i].requests) - Len(inv[i].replies)
Awaiting(i) == inv[i].pc \in {"awaitOrg", "awaitPage"}
\* The issue-page requests that have settled.
PagesFetched(i) ==
    Cardinality({n \in 1..Len(inv[i].replies) : inv[i].requests[n].url.api # "orgs"})

\* C17: within one invocation at most one request is in flight, and one is
\* exactly while the handler awaits; the first issue page is requested only
\* after the organization lookup was answered; a further page is requested
\* only after the page before it was answered and scanned without a match; the
\* first request is the organization lookup and every other one an issue page,
\* so an invocation that has fetched p issue pages has made 1 + p requests.
C17_RequestsOneAtATime ==
    \A i \in Invocations :
        /\ InFlight(i) = IF Awaiting(i) THEN 1 ELSE 0
        /\ Len(inv[i].requests) >= 2 =>
              /\ inv[i].replies[1].ok
              /\ inv[i].requests[1].url.api = "orgs"
        /\ \A n \in 3..Len(inv[i].requests) :
              /\ Len(inv[i].replies) >= n - 1
              /\ inv[i].replies[n - 1].ok
              /\ ~HoldsKey(inv[i].replies[n - 1].data, inv[i].issueId)
        /\ \A n \in 2..Len(inv[i].requests) :
              inv[i].requests[n].url.api \in {"issues", "cursor"}
        /\ (Finished(i) /\ Len(inv[i].requests) >= 1) =>
              Len(inv[i].requests) = 1 + PagesFetched(i)

\* C17 witness: the third issue page is awaited, the only request in flight,
\* after the lookup and two pages were answered: four requests, three answers.
C17_Witness ==
    /\ inv[1].pc = "awaitPage"
    /\ Len(inv[1].requests) = 4 /\ Len(inv[1].replies) = 3
    /\ AllFulfilled(1)
    /\ inv[1].requests[4].url = Cursor(3)

\* The level a severity text names: the one it equals up to letter case.
LevelOf(a) == CHOOSE level \in validSeverities : SameIgnoringCase(a, level)

\* C18: the first issue-page request of an invocation is the second request it
\* makes; it is addressed to the organization whose id is the first of the
\* lookup's answer, filtered by the project id of the tracker URL (the first
\* hex-and-hyphen id after /project/ that '#' or the end follows) and by the
\* severity of the request in lower case, whatever its letter case was.
C18_FirstPageRequestFilter ==
    \A i \in Invocations :
        Len(inv[i].requests) >= 2 =>
            LET first == inv[i].requests[2].url
                sent == Member(i, "severity")
                u == Member(i, "snykIssueUrl")
                answer == inv[i].replies[1].data
            IN  /\ first.api = "issues"
                /\ \A n \in 3..Len(inv[i].requests) : inv[i].requests[n].url.api # "issues"
                /\ sent.t = "str" /\ IsLevel(sent.v)
                /\ first.severity = Str(LevelOf(sent.v))
                /\ first.severity.v \in validSeverities
                /\ u.t = "str" /\ Projects(u.v) # {}
                /\ first.project = Str(First(Projects(u.v)))
                /\ first.org = GetProp(answer, "data").v[1].id

\* C18 witness: a severity sent as "HiGh" and a URL with two project segments;
\* the first page request filters by "high" and by the id of the second
\* segment, for the organization the lookup answered.
C18_Witness ==
    /\ Len(inv[1].requests) >= 2
    /\ Member(1, "severity") = Str(<<"H", "i", "G", "h">>)
    /\ inv[1].requests[2].url =
          initialIssuesUrl(Org9, Str(<<"1", "f">>), Str(<<"h", "i", "g", "h">>))

-----------------------------------------------------------------------------
(* The order of the checks made before any request. *)

\* The defects of a request, as its sender wrote it.  A field is missing when
\* it is absent or empty (what line 184 tests); a severity is invalid when it
\* is not a text that names a level; a URL cannot be decomposed when it is not
\* a text with the three parts.
FieldMissing(i) == ~Malformed(i) /\ ~BothPresent(i)
CredentialAbsent == ~Truthy(authToken)
SeverityInvalid(i) ==
    LET sent == Member(i, "severity")
    IN  Truthy(sent) /\ ~(sent.t = "str" /\ IsLevel(sent.v))
UrlUndecomposable(i) ==
    LET u == Member(i, "snykIssueUrl")
    IN  Truthy(u) /\ ~(u.t = "str" /\ Handles(u.v) # {} /\ Projects(u.v) # {}
                                   /\ Keys(u.v) # {})
Refused(i, status, text) ==
    Done(i) /\ Status(i) = status /\ Said(i, text) /\ NoNetworkCall(i)

\* The first defect in the order of the checks decides the answer.
AnsweredByPrecedence(i) ==
    IF Malformed(i) THEN Refused(i, 400, "Invalid JSON in request body")
    ELSE IF FieldMissing(i) THEN Refused(i, 400, "Missing snykIssueUrl or severity")
    ELSE IF CredentialAbsent
    THEN Refused(i, 500, "Authentication token is not configured")
    ELSE IF SeverityInvalid(i) THEN Refused(i, 400, "Invalid severity level")
    ELSE IF UrlUndecomposable(i) THEN Refused(i, 400, "Invalid Snyk issue URL format")
    ELSE Len(inv[i].requests) >= 1

\* C19 (as claimed): the checks before the first request apply in the order
\* malformed JSON (400), missing field (400), absent credential (500), invalid
\* severity (400), undecomposable URL (400), and the first that fails decides
\* the answer: every request that was handled is answered by its first defect.
C19_ChecksInFixedOrder ==
    \A i \in Invocations : Ran(i) => AnsweredByPrecedence(i)

\* C19, the part that holds: the same, for the requests whose body is not JSON
\* null and whose severity and URL, when present, are texts.
TextRequest(i) ==
    /\ inv[i].event # Json(Null)
    /\ Truthy(Member(i, "severity")) => Member(i, "severity").t = "str"
    /\ Truthy(Member(i, "snykIssueUrl")) => Member(i, "snykIssueUrl").t = "str"
C19_ChecksInFixedOrderForTexts ==
    \A i \in Invocations : (Ran(i) /\ TextRequest(i)) => AnsweredByPrecedence(i)

====
